---- MODULE Spec2Model ----
(***************************************************************************)
(* The GraphHopper route finder scripts (graphhopper_app.py,               *)
(* graphhopper_enhanced.py, graphhopper_map_ui.py and                      *)
(* graphhopper_route_finder_with_weather.py) as one state machine: the     *)
(* position of main(), its local variables, the external requests it has   *)
(* issued, what it has printed and the files it has written.               *)
(*                                                                         *)
(* Python values: None is the record None; a dict is a TLA+ function whose *)
(* DOMAIN is its key set; a list or tuple is a sequence; a displayed       *)
(* string is the sequence of its tokens (literals and formatted values).   *)
(* Coordinates are integers in units of 1e-4 degree, distances integers in *)
(* meters, durations integers in milliseconds.                             *)
(***************************************************************************)
EXTENDS Integers, Sequences, FiniteSets, TLC

VARIABLES
    variant,        \* which script runs: "app", "enhanced", "map_ui", "weather"
    json_caught,    \* the installed requests raises JSONDecodeError as a RequestException
    pc,             \* position of main()
    start,          \* main: start
    end,            \* main: end
    vehicle_choice, \* main: vehicle_choice (weather variant)
    vehicle,        \* main: vehicle (weather variant)
    unit_choice,    \* main: unit_choice
    start_coords,   \* main: start_coords
    end_coords,     \* main: end_coords
    start_weather,  \* main: start_weather (weather variant)
    end_weather,    \* main: end_weather (weather variant)
    route,          \* main: route
    table,          \* main: table (the summary rows), <<>> before it is built
    steps,          \* main: steps (the step-by-step rows)
    calls,          \* requests.get calls issued in this run, in order
    printed,        \* what the run has printed, in order
    exception,      \* the uncaught exception that ended the run, or NoException
    files,          \* the working directory: file name -> content
    writes,         \* the files written in this run, in order
    show_steps,     \* main: show_steps, the lowered answer to the steps prompt
    save,           \* main: save, the lowered answer to the save prompt
    run,            \* how many runs of a script the working directory has seen
    arg,            \* a direct call of one function: the function and its arguments
    result          \* what that call returned

vars == <<variant, json_caught, pc, start, end, vehicle_choice, vehicle, unit_choice,
          start_coords, end_coords, start_weather, end_weather, route, table,
          steps, calls, printed, exception, files, writes, show_steps, save,
          run, arg, result>>

-----------------------------------------------------------------------------
(* Bounds of the model *)

\* longest list of instructions, and of route points, in a routing response
MaxSteps == 2

-----------------------------------------------------------------------------
(* Python values *)

None == [none |-> TRUE]
NoException == "none"
\* a local variable main() has not assigned yet: a record where the variable
\* will hold a record or None, a word where it will hold a string, a sequence
\* where it will hold a string given by its characters or tokens
Unset == [unset |-> TRUE]
UnsetWord == "<unset>"
UnsetStr == << "<unset>" >>
\* a file that does not exist
Absent == [kind |-> "absent"]

Variants == {"app", "enhanced", "map_ui", "weather"}
HasMap(v) == v \in {"map_ui", "weather"}
HasSave(v) == v \in {"enhanced", "map_ui", "weather"}

\* dict.get(key, default)
Get(d, key, default) == IF key \in DOMAIN d THEN d[key] ELSE default

\* str.lower() and str.strip() on a string given as its sequence of characters
LowerChar(c) ==
    CASE c = "K" -> "k" [] c = "M" -> "m" [] c = "I" -> "i"
      [] c = "Y" -> "y" [] c = "N" -> "n" [] OTHER -> c

Lower(s) == [i \in 1..Len(s) |-> LowerChar(s[i])]

RECURSIVE LStrip(_)
LStrip(s) == IF s # <<>> /\ Head(s) = " " THEN LStrip(Tail(s)) ELSE s

RECURSIVE RStrip(_)
RStrip(s) ==
    IF s # <<>> /\ s[Len(s)] = " " THEN RStrip(SubSeq(s, 1, Len(s) - 1)) ELSE s

Strip(s) == RStrip(LStrip(s))

\* str.capitalize() on the words the scripts capitalize
Capitalize(s) ==
    CASE s = "car" -> "Car" [] s = "motorcycle" -> "Motorcycle"
      [] s = "foot" -> "Foot" [] s = "clear sky" -> "Clear sky"
      [] s = "RAIN" -> "Rain" [] OTHER -> s

\* round(num/den) to the nearest integer, ties to even (num >= 0, den > 0)
RoundHalfEven(num, den) ==
    LET q == num \div den
        r == num % den
    IN  IF 2 * r < den THEN q
        ELSE IF 2 * r > den THEN q + 1
        ELSE IF q % 2 = 0 THEN q ELSE q + 1

-----------------------------------------------------------------------------
(* What the remote services can answer *)

\* the two coordinates of the repository's tests, in 1e-4 degree
London == [lat |-> 515074, lng |-> -1278]
Nearby == [lat |-> 515075, lng |-> -1280]

\* a requests.get outcome: the call raises, raise_for_status raises, json()
\* raises, or json() returns `data`
ConnectionError == [kind |-> "ConnectionError"]
HTTPError == [kind |-> "HTTPError"]
BadJson == [kind |-> "JSONDecodeError"]
Json(data) == [kind |-> "json", data |-> data]

GeocodeResponses ==
    << Json([hits |-> << [name |-> "x"] >>]),
       ConnectionError, HTTPError, BadJson,
       Json([message |-> "ok"]),
       Json([hits |-> <<>>]),
       Json([hits |-> << [point |-> [lat |-> 515074]] >>]),
       Json([hits |-> << [point |-> London] >>]),
       Json([hits |-> << [point |-> Nearby], [point |-> London] >>]) >>

WeatherResponses ==
    << Json([cod |-> 200]),
       ConnectionError, HTTPError, BadJson,
       Json([weather |-> <<>>, main |-> [temp |-> 15], wind |-> [speed |-> 5]]),
       Json([weather |-> << [description |-> "clear sky"] >>, wind |-> [speed |-> 5]]),
       Json([weather |-> << [description |-> "clear sky"] >>, main |-> [temp |-> 15]]),
       Json([weather |-> << [description |-> "clear sky"] >>,
             main |-> [temp |-> 15], wind |-> [speed |-> 5]]),
       Json([weather |-> << [description |-> "RAIN"], [description |-> "clear sky"] >>,
             main |-> [temp |-> 16], wind |-> [speed |-> 4]]) >>

\* the i-th instruction and the j-th (longitude, latitude) point of a route;
\* the first ones are those of the repository's tests
Instruction(i) ==
    IF i = 1 THEN [text |-> "Head north", distance |-> 100]
    ELSE [text |-> "Turn left", distance |-> 1609 * (i - 1)]

Point(j) == << -1278 - 2 * (j - 1), 515074 + (j - 1) >>

\* a candidate path with k instructions and k + 1 points
PathOf(k, distance, time) ==
    [distance |-> distance, time |-> time,
     points |-> [coordinates |-> [j \in 1..(k + 1) |-> Point(j)]],
     instructions |-> [i \in 1..k |-> Instruction(i)]]

TestPath == PathOf(1, 10000, 600000)
LongPath == PathOf(MaxSteps, 201168, 7530000)

Without(d, key) == [k \in DOMAIN d \ {key} |-> d[k]]

RouteResponses ==
    << Json([message |-> "ok"]),
       ConnectionError, HTTPError, BadJson,
       Json([paths |-> <<>>]),
       Json([paths |-> << Without(TestPath, "distance") >>]),
       Json([paths |-> << Without(TestPath, "time") >>]),
       Json([paths |-> << Without(TestPath, "points") >>]),
       Json([paths |-> << Without(TestPath, "instructions") >>]),
       Json([paths |-> << TestPath >>]),
       Json([paths |-> << LongPath, TestPath >>]) >>

-----------------------------------------------------------------------------
(* The clients.  Each returns what the function does with one response:     *)
(* ret (the returned value), exc (the exception that escapes it) and out    *)
(* (what it prints).                                                        *)

Return(value, out) == [ret |-> value, exc |-> NoException, out |-> out]
Raise(e) == [ret |-> None, exc |-> e, out |-> <<>>]

\* the `except requests.exceptions.RequestException` clause: does it catch
\* what the response makes requests raise?
IsRequestException(resp) ==
    \/ resp.kind \in {"ConnectionError", "HTTPError"}
    \/ resp.kind = "JSONDecodeError" /\ json_caught

\* geocode_location printing the not-found line in its except clause too
geocode_location_SameLine(location, resp) ==
    IF resp.kind # "json"
    THEN IF IsRequestException(resp)
         THEN Return(None, << <<"Could not find location", location>> >>)
         ELSE Raise(resp.kind)
    ELSE LET hits == Get(resp.data, "hits", <<>>) IN
         IF Len(hits) = 0
         THEN Return(None, << <<"Could not find location", location>> >>)
         ELSE IF "point" \notin DOMAIN hits[1] THEN Raise("KeyError")
         ELSE LET point == hits[1].point IN
              IF "lat" \notin DOMAIN point \/ "lng" \notin DOMAIN point
              THEN Raise("KeyError")
              ELSE Return([lat |-> point.lat, lng |-> point.lng], <<>>)

geocode_location(location, resp) ==
    IF resp.kind # "json"
    THEN IF IsRequestException(resp)
         THEN Return(None, << <<"Error in geocoding", location, resp.kind>> >>)
         ELSE Raise(resp.kind)
    ELSE LET hits == Get(resp.data, "hits", <<>>) IN
         IF Len(hits) = 0
         THEN Return(None, << <<"Could not find location", location>> >>)
         ELSE IF "point" \notin DOMAIN hits[1] THEN Raise("KeyError")
         ELSE LET point == hits[1].point IN
              IF "lat" \notin DOMAIN point \/ "lng" \notin DOMAIN point
              THEN Raise("KeyError")
              ELSE Return([lat |-> point.lat, lng |-> point.lng], <<>>)

WeatherUnavailable == <<"Weather data unavailable">>

\* get_weather without its except clause: a request failure escapes
get_weather_NoExcept(coords, resp) ==
    IF resp.kind # "json" THEN Raise(resp.kind)
    ELSE LET data == resp.data IN
         IF "weather" \notin DOMAIN data THEN Raise("KeyError")
         ELSE IF Len(data.weather) = 0 THEN Raise("IndexError")
         ELSE IF "description" \notin DOMAIN data.weather[1] THEN Raise("KeyError")
         ELSE IF "main" \notin DOMAIN data \/ "temp" \notin DOMAIN data.main
              THEN Raise("KeyError")
         ELSE IF "wind" \notin DOMAIN data \/ "speed" \notin DOMAIN data.wind
              THEN Raise("KeyError")
         ELSE Return(<< Capitalize(data.weather[1].description), ", T ",
                        data.main.temp, "C, W ", data.wind.speed, " m/s" >>, <<>>)

get_weather(coords, resp) ==
    IF resp.kind # "json"
    THEN IF IsRequestException(resp)
         THEN Return(WeatherUnavailable, << <<"Weather fetch error", resp.kind>> >>)
         ELSE Raise(resp.kind)
    ELSE LET data == resp.data IN
         IF "weather" \notin DOMAIN data THEN Raise("KeyError")
         ELSE IF Len(data.weather) = 0 THEN Raise("IndexError")
         ELSE IF "description" \notin DOMAIN data.weather[1] THEN Raise("KeyError")
         ELSE IF "main" \notin DOMAIN data \/ "temp" \notin DOMAIN data.main
              THEN Raise("KeyError")
         ELSE IF "wind" \notin DOMAIN data \/ "speed" \notin DOMAIN data.wind
              THEN Raise("KeyError")
         ELSE Return(<< Capitalize(data.weather[1].description), ", T ",
                        data.main.temp, "C, W ", data.wind.speed, " m/s" >>, <<>>)

-----------------------------------------------------------------------------
(* Formatting of numbers, as sequences of characters *)

DigitChar(d) ==
    CASE d = 0 -> "0" [] d = 1 -> "1" [] d = 2 -> "2" [] d = 3 -> "3" [] d = 4 -> "4"
      [] d = 5 -> "5" [] d = 6 -> "6" [] d = 7 -> "7" [] d = 8 -> "8" [] d = 9 -> "9"

\* str(n) of an integer n >= 0
RECURSIVE NatStr(_)
NatStr(n) == IF n < 10 THEN << DigitChar(n) >> ELSE NatStr(n \div 10) \o << DigitChar(n % 10) >>

\* str(n) of an integer
IntStr(n) == IF n < 0 THEN <<"-">> \o NatStr(-n) ELSE NatStr(n)

RECURSIVE StripZeros(_)
StripZeros(s) ==
    IF Len(s) > 1 /\ s[Len(s)] = "0" THEN StripZeros(SubSeq(s, 1, Len(s) - 1)) ELSE s

\* str(x) of the float x = c / 10000: the shortest decimal, at least one
\* fractional digit, no trailing zeros
FloatStr(c) ==
    LET a == IF c < 0 THEN -c ELSE c
        f == a % 10000
        frac == << DigitChar(f \div 1000), DigitChar((f \div 100) % 10),
                   DigitChar((f \div 10) % 10), DigitChar(f % 10) >>
    IN  (IF c < 0 THEN <<"-">> ELSE <<>>) \o NatStr(a \div 10000) \o <<".">> \o StripZeros(frac)

\* f"{value:.2f}" of the quotient value.num / value.den
Fixed2(value) ==
    LET h == RoundHalfEven(value.num * 100, value.den)
    IN  NatStr(h \div 100) \o <<".">> \o << DigitChar((h \div 10) % 10), DigitChar(h % 10) >>

-----------------------------------------------------------------------------
(* The routing client *)

CatchesLookupError(v) == v = "app"
ReadsPoints(v) == HasMap(v)

\* f"{coords[0]},{coords[1]}"
PointStr(coords) == FloatStr(coords.lat) \o <<",">> \o FloatStr(coords.lng)

\* RouteParams with the vehicle hard-coded, as in the scripts without a mode prompt
RouteParams_FixedCar(v, s_coords, e_coords, veh) ==
    LET base == [point |-> << PointStr(s_coords), PointStr(e_coords) >>,
                 vehicle |-> "car",
                 locale |-> "en", calc_points |-> "true", key |-> "GRAPH_API_KEY"]
    IN  IF ReadsPoints(v)
        THEN [k \in DOMAIN base \cup {"points_encoded"} |->
                 IF k = "points_encoded" THEN "false" ELSE base[k]]
        ELSE base

\* the params dict of get_route with the two points in the other order
RouteParams_DestinationFirst(v, s_coords, e_coords, veh) ==
    LET base == [point |-> << PointStr(e_coords), PointStr(s_coords) >>,
                 vehicle |-> IF v = "weather" THEN veh ELSE "car",
                 locale |-> "en", calc_points |-> "true", key |-> "GRAPH_API_KEY"]
    IN  IF ReadsPoints(v)
        THEN [k \in DOMAIN base \cup {"points_encoded"} |->
                 IF k = "points_encoded" THEN "false" ELSE base[k]]
        ELSE base

\* the params dict of get_route
RouteParams(v, s_coords, e_coords, veh) ==
    LET base == [point |-> << PointStr(s_coords), PointStr(e_coords) >>,
                 vehicle |-> IF v = "weather" THEN veh ELSE "car",
                 locale |-> "en", calc_points |-> "true", key |-> "GRAPH_API_KEY"]
    IN  IF ReadsPoints(v)
        THEN [k \in DOMAIN base \cup {"points_encoded"} |->
                 IF k = "points_encoded" THEN "false" ELSE base[k]]
        ELSE base

\* the dict get_route builds from the first path; KeyError when a key it
\* reads is missing
RouteDict(v, path) ==
    IF "distance" \notin DOMAIN path \/ "time" \notin DOMAIN path THEN Raise("KeyError")
    ELSE IF ReadsPoints(v)
    THEN IF "points" \notin DOMAIN path \/ "coordinates" \notin DOMAIN path.points
         THEN Raise("KeyError")
         ELSE Return([distance |-> path.distance, time |-> path.time,
                      points |-> path.points.coordinates,
                      instructions |-> Get(path, "instructions", <<>>)], <<>>)
    ELSE Return([distance |-> path.distance, time |-> path.time,
                 instructions |-> Get(path, "instructions", <<>>)], <<>>)

\* get_route answering a failed request with an empty route instead of None
get_route_EmptyRoute(v, resp) ==
    IF resp.kind # "json"
    THEN IF IsRequestException(resp)
         THEN Return(IF ReadsPoints(v)
                     THEN [distance |-> 0, time |-> 0, points |-> <<>>, instructions |-> <<>>]
                     ELSE [distance |-> 0, time |-> 0, instructions |-> <<>>],
                     << <<"Error fetching route", resp.kind>> >>)
         ELSE Raise(resp.kind)
    ELSE LET data == resp.data
             r == IF "paths" \notin DOMAIN data THEN Raise("KeyError")
                  ELSE IF Len(data.paths) = 0 THEN Raise("IndexError")
                  ELSE RouteDict(v, data.paths[1])
         IN  IF r.exc # NoException /\ CatchesLookupError(v)
             THEN Return(None, << <<"Invalid API response format.">> >>)
             ELSE r

get_route(v, resp) ==
    IF resp.kind # "json"
    THEN IF IsRequestException(resp)
         THEN Return(None, << <<"Error fetching route", resp.kind>> >>)
         ELSE Raise(resp.kind)
    ELSE LET data == resp.data
             r == IF "paths" \notin DOMAIN data THEN Raise("KeyError")
                  ELSE IF Len(data.paths) = 0 THEN Raise("IndexError")
                  ELSE RouteDict(v, data.paths[1])
         IN  IF r.exc # NoException /\ CatchesLookupError(v)
             THEN Return(None, << <<"Invalid API response format.">> >>)
             ELSE r

-----------------------------------------------------------------------------
(* The unit converter *)

MetersPerKm == 1000
\* 1609.34, in hundredths of a meter
CentimetersPerMile == 160934
MsPerMinute == 60000

Mi == <<"m", "i">>
Km == <<"k", "m">>

\* convert_distance dividing by the international mile, 1609.344 m
convert_distance_StatuteMile(distance_m, unit) ==
    IF unit = Mi
    THEN [value |-> [num |-> distance_m * 1000, den |-> 1609344], label |-> "miles"]
    ELSE [value |-> [num |-> distance_m, den |-> MetersPerKm], label |-> "km"]

\* the quotient distance_m / 1609.34 or distance_m / 1000, and its label
convert_distance(distance_m, unit) ==
    IF unit = Mi
    THEN [value |-> [num |-> distance_m * 100, den |-> CentimetersPerMile], label |-> "miles"]
    ELSE [value |-> [num |-> distance_m, den |-> MetersPerKm], label |-> "km"]

\* the extended convert_time with whole minutes rounded to nearest
convert_time_hm_Rounded(ms) ==
    LET whole == (ms + MsPerMinute \div 2) \div MsPerMinute
        hours == whole \div 60
        mins == whole % 60
    IN  IF hours # 0
        THEN NatStr(hours) \o <<"h ">> \o NatStr(mins) \o <<"m">>
        ELSE NatStr(mins) \o <<" minutes">>

\* the extended convert_time: "<hours>h <mins>m", or "<mins> minutes".
\* minutes is the quotient ms / (1000 * 60); hours = int(minutes // 60) is
\* the floor of minutes / 60, and mins = int(minutes % 60) is the whole
\* part of what is left of minutes after taking the hours out.
convert_time_hm(ms) ==
    LET minutes == [num |-> ms, den |-> MsPerMinute]
        hours == minutes.num \div (minutes.den * 60)
        mins == (minutes.num - hours * 60 * minutes.den) \div minutes.den
    IN  IF hours # 0
        THEN NatStr(hours) \o <<"h ">> \o NatStr(mins) \o <<"m">>
        ELSE NatStr(mins) \o <<" minutes">>

\* the basic convert_time: round(ms / 60000, 1), in tenths of a minute
convert_time_min(ms) == RoundHalfEven(ms * 10, MsPerMinute)

\* f"{duration_min} minutes" of a float given in tenths
MinutesStr(tenths) ==
    NatStr(tenths \div 10) \o <<".">> \o << DigitChar(tenths % 10) >> \o <<" minutes">>

\* f"{value:.2f} {label}"
DistanceStr(d) == Fixed2(d.value) \o <<" ">> \o << d.label >>

-----------------------------------------------------------------------------
(* The map renderer *)

\* the polyline handed over as the route's points are, (lon, lat)
SwapPoints_Unswapped(route_points) == route_points

\* [(lat, lon) for lon, lat in route_points]
SwapPoints(route_points) ==
    [i \in 1..Len(route_points) |-> << route_points[i][2], route_points[i][1] >>]

\* the document m.save("route_map.html") writes
create_map(v, s_coords, e_coords, route_points, s_label, e_label, s_weather, e_weather, veh) ==
    [midpoint |-> [lat2 |-> s_coords.lat + e_coords.lat, lng2 |-> s_coords.lng + e_coords.lng],
     markers |-> << [at |-> <<s_coords.lat, s_coords.lng>>,
                     popup |-> IF v = "weather" THEN <<"Start", s_label>> \o s_weather
                               ELSE <<"Start", s_label>>],
                    [at |-> <<e_coords.lat, e_coords.lng>>,
                     popup |-> IF v = "weather" THEN <<"End", e_label>> \o e_weather
                               ELSE <<"End", e_label>>] >>,
     polyline |-> SwapPoints(route_points),
     tooltip |-> IF v = "weather" THEN <<"Route for ", Capitalize(veh)>> ELSE <<>>]

-----------------------------------------------------------------------------
(* The orchestrator, main().  printed holds the error lines and the tables  *)
(* a run prints; banners, prompts and progress lines are left out.          *)

StartPlaces == {"Tokyo"}
EndPlaces == {"Osaka"}

\* what the user may type at the unit prompt, the mode prompt and a y/n prompt
UnitInputs ==
    { <<"k", "m">>, <<"m", "i">>, <<"M", "I">>, <<" ", "m", "i", " ">>,
      <<"m", "i", "l", "e", "s">>, <<>> }
VehicleInputs == { <<"1">>, <<"2">>, <<"3">>, <<" ", "2", " ">>, <<"4">> }
Answers == { <<"y">>, <<"Y">>, <<"n">>, <<" ", "y">> }

\* vehicle_map.get(vehicle_choice, "car")
vehicle_map(choice) ==
    CASE choice = <<"1">> -> "car" [] choice = <<"2">> -> "motorcycle"
      [] choice = <<"3">> -> "foot" [] OTHER -> "car"

Line_(text) == [kind |-> "line", text |-> text]
Table(fmt, headers, rows) == [kind |-> "table", fmt |-> fmt, headers |-> headers, rows |-> rows]
Lines(out) == [i \in 1..Len(out) |-> Line_(out[i])]

SummaryFile == "route_summary.txt"
MapFile == "route_map.html"

\* one requests.get call of the run: the endpoint, the params, what the
\* service answered, and what the client function made of it (r)
Call(api, params, resp, r) ==
    [api |-> api, params |-> params, response |-> resp,
     raised |-> r.exc, returned |-> r.ret, out |-> r.out]

Init ==
    /\ variant \in Variants
    /\ json_caught \in BOOLEAN
    /\ pc = "input"
    /\ start = UnsetWord /\ end = UnsetWord
    /\ vehicle_choice = UnsetStr /\ vehicle = UnsetWord /\ unit_choice = UnsetStr
    /\ start_coords = Unset /\ end_coords = Unset
    /\ start_weather = UnsetStr /\ end_weather = UnsetStr
    /\ route = Unset
    /\ table = <<>> /\ steps = <<>>
    /\ calls = <<>> /\ printed = <<>>
    /\ exception = NoException
    /\ files = [f \in {SummaryFile, MapFile} |-> Absent]
    /\ writes = <<>>
    /\ show_steps = UnsetStr /\ save = UnsetStr
    /\ run = 1
    /\ arg = Unset /\ result = Unset

\* the unit the run uses: the typed text lowered and stripped, km unless it
\* is km or mi
ChosenUnit(typed) ==
    LET u == Strip(Lower(typed)) IN IF u \notin {Km, Mi} THEN Km ELSE u

InvalidUnitLine == Line_(<<"Invalid choice. Defaulting to kilometers.">>)

\* main: the input() calls and the validation of the unit
ReadInputs ==
    /\ pc = "input"
    /\ \E s \in StartPlaces, e \in EndPlaces, vc \in VehicleInputs, uc \in UnitInputs :
          /\ start' = s
          /\ end' = e
          /\ IF variant = "weather"
             THEN /\ vehicle_choice' = Strip(vc)
                  /\ vehicle' = vehicle_map(Strip(vc))
             ELSE UNCHANGED <<vehicle_choice, vehicle>>
          /\ unit_choice' = ChosenUnit(uc)
          /\ printed' = IF Strip(Lower(uc)) \notin {Km, Mi}
                        THEN Append(printed, InvalidUnitLine)
                        ELSE printed
    /\ pc' = "geocode_start"
    /\ UNCHANGED <<variant, json_caught, start_coords, end_coords, start_weather,
                   end_weather, route, table, steps, calls, exception, files, writes>>
    /\ UNCHANGED <<show_steps, save, run, arg, result>>

GeocodeParams(location) == [q |-> location, key |-> "GRAPH_API_KEY"]

\* start_coords = geocode_location(start)
GeocodeStart ==
    /\ pc = "geocode_start"
    /\ \E i \in DOMAIN GeocodeResponses :
          LET resp == GeocodeResponses[i]
              r == geocode_location(start, resp)
          IN  /\ calls' = Append(calls, Call("geocode", GeocodeParams(start), resp, r))
              /\ printed' = printed \o Lines(r.out)
              /\ IF r.exc # NoException
                 THEN /\ pc' = "crashed" /\ exception' = r.exc
                      /\ UNCHANGED start_coords
                 ELSE /\ pc' = "geocode_end" /\ start_coords' = r.ret
                      /\ UNCHANGED exception
    /\ UNCHANGED <<variant, json_caught, start, end, vehicle_choice, vehicle, unit_choice,
                   end_coords, start_weather, end_weather, route, table, steps,
                   files, writes>>
    /\ UNCHANGED <<show_steps, save, run, arg, result>>

\* end_coords = geocode_location(end)
GeocodeEnd ==
    /\ pc = "geocode_end"
    /\ \E i \in DOMAIN GeocodeResponses :
          LET resp == GeocodeResponses[i]
              r == geocode_location(end, resp)
          IN  /\ calls' = Append(calls, Call("geocode", GeocodeParams(end), resp, r))
              /\ printed' = printed \o Lines(r.out)
              /\ IF r.exc # NoException
                 THEN /\ pc' = "crashed" /\ exception' = r.exc
                      /\ UNCHANGED end_coords
                 ELSE /\ pc' = "check_coords" /\ end_coords' = r.ret
                      /\ UNCHANGED exception
    /\ UNCHANGED <<variant, json_caught, start, end, vehicle_choice, vehicle, unit_choice,
                   start_coords, start_weather, end_weather, route, table, steps,
                   files, writes>>
    /\ UNCHANGED <<show_steps, save, run, arg, result>>

ExitingLine == Line_(<<"Could not retrieve valid coordinates. Exiting.">>)

\* the coordinate check going straight to the routing call in every script
CheckCoords_SkipWeather ==
    /\ pc = "check_coords"
    /\ IF start_coords = None \/ end_coords = None
       THEN /\ printed' = Append(printed, ExitingLine)
            /\ pc' = "done"
       ELSE /\ pc' = "route"
            /\ UNCHANGED printed
    /\ UNCHANGED <<variant, json_caught, start, end, vehicle_choice, vehicle, unit_choice,
                   start_coords, end_coords, start_weather, end_weather, route, table,
                   steps, calls, exception, files, writes>>
    /\ UNCHANGED <<show_steps, save, run, arg, result>>

\* CheckCoords with the start coordinate tested twice and the end never
CheckCoords_StartTwice ==
    /\ pc = "check_coords"
    /\ IF start_coords = None \/ start_coords = None
       THEN /\ printed' = Append(printed, ExitingLine)
            /\ pc' = "done"
       ELSE /\ pc' = IF variant = "weather" THEN "weather_start" ELSE "route"
            /\ UNCHANGED printed
    /\ UNCHANGED <<variant, json_caught, start, end, vehicle_choice, vehicle, unit_choice,
                   start_coords, end_coords, start_weather, end_weather, route, table,
                   steps, calls, exception, files, writes>>
    /\ UNCHANGED <<show_steps, save, run, arg, result>>

\* if not start_coords or not end_coords: print(...); return
CheckCoords ==
    /\ pc = "check_coords"
    /\ IF start_coords = None \/ end_coords = None
       THEN /\ printed' = Append(printed, ExitingLine)
            /\ pc' = "done"
       ELSE /\ pc' = IF variant = "weather" THEN "weather_start" ELSE "route"
            /\ UNCHANGED printed
    /\ UNCHANGED <<variant, json_caught, start, end, vehicle_choice, vehicle, unit_choice,
                   start_coords, end_coords, start_weather, end_weather, route, table,
                   steps, calls, exception, files, writes>>
    /\ UNCHANGED <<show_steps, save, run, arg, result>>

WeatherParams(coords) ==
    [lat |-> coords.lat, lon |-> coords.lng, appid |-> "WEATHER_API_KEY", units |-> "metric"]

\* start_weather = get_weather(start_coords); unpacking None (`lat, lon =
\* coords`) raises TypeError before any request
WeatherStart ==
    /\ pc = "weather_start"
    /\ IF start_coords = None
       THEN /\ pc' = "crashed" /\ exception' = "TypeError"
            /\ UNCHANGED <<calls, printed, start_weather>>
       ELSE \E i \in DOMAIN WeatherResponses :
              LET resp == WeatherResponses[i]
                  r == get_weather(start_coords, resp)
              IN  /\ calls' = Append(calls, Call("weather", WeatherParams(start_coords), resp, r))
                  /\ printed' = printed \o Lines(r.out)
                  /\ IF r.exc # NoException
                     THEN /\ pc' = "crashed" /\ exception' = r.exc
                          /\ UNCHANGED start_weather
                     ELSE /\ pc' = "weather_end" /\ start_weather' = r.ret
                          /\ UNCHANGED exception
    /\ UNCHANGED <<variant, json_caught, start, end, vehicle_choice, vehicle, unit_choice,
                   start_coords, end_coords, end_weather, route, table, steps,
                   files, writes>>
    /\ UNCHANGED <<show_steps, save, run, arg, result>>

\* end_weather = get_weather(end_coords)
WeatherEnd ==
    /\ pc = "weather_end"
    /\ IF end_coords = None
       THEN /\ pc' = "crashed" /\ exception' = "TypeError"
            /\ UNCHANGED <<calls, printed, end_weather>>
       ELSE \E i \in DOMAIN WeatherResponses :
              LET resp == WeatherResponses[i]
                  r == get_weather(end_coords, resp)
              IN  /\ calls' = Append(calls, Call("weather", WeatherParams(end_coords), resp, r))
                  /\ printed' = printed \o Lines(r.out)
                  /\ IF r.exc # NoException
                     THEN /\ pc' = "crashed" /\ exception' = r.exc
                          /\ UNCHANGED end_weather
                     ELSE /\ pc' = "route" /\ end_weather' = r.ret
                          /\ UNCHANGED exception
    /\ UNCHANGED <<variant, json_caught, start, end, vehicle_choice, vehicle, unit_choice,
                   start_coords, end_coords, start_weather, route, table, steps,
                   files, writes>>
    /\ UNCHANGED <<show_steps, save, run, arg, result>>

\* route = get_route(start_coords, end_coords[, vehicle]); subscripting None
\* while the params are built raises TypeError before any request
Route ==
    /\ pc = "route"
    /\ IF start_coords = None \/ end_coords = None
       THEN /\ pc' = "crashed" /\ exception' = "TypeError"
            /\ UNCHANGED <<calls, printed, route>>
       ELSE \E i \in DOMAIN RouteResponses :
              LET resp == RouteResponses[i]
                  r == get_route(variant, resp)
              IN  /\ calls' = Append(calls,
                                     Call("route",
                                          RouteParams(variant, start_coords, end_coords, vehicle),
                                          resp, r))
                  /\ printed' = printed \o Lines(r.out)
                  /\ IF r.exc # NoException
                     THEN /\ pc' = "crashed" /\ exception' = r.exc
                          /\ UNCHANGED route
                     ELSE /\ pc' = "check_route" /\ route' = r.ret
                          /\ UNCHANGED exception
    /\ UNCHANGED <<variant, json_caught, start, end, vehicle_choice, vehicle, unit_choice,
                   start_coords, end_coords, start_weather, end_weather, table, steps,
                   files, writes>>
    /\ UNCHANGED <<show_steps, save, run, arg, result>>

\* a route check that calls get_route again when no route came back
CheckRoute_Retry ==
    /\ pc = "check_route"
    /\ pc' = IF route = None THEN "route" ELSE "summary"
    /\ UNCHANGED <<variant, json_caught, start, end, vehicle_choice, vehicle, unit_choice,
                   start_coords, end_coords, start_weather, end_weather, route, table,
                   steps, calls, printed, exception, files, writes>>
    /\ UNCHANGED <<show_steps, save, run, arg, result>>

\* if not route: return
CheckRoute ==
    /\ pc = "check_route"
    /\ pc' = IF route = None THEN "done" ELSE "summary"
    /\ UNCHANGED <<variant, json_caught, start, end, vehicle_choice, vehicle, unit_choice,
                   start_coords, end_coords, start_weather, end_weather, route, table,
                   steps, calls, printed, exception, files, writes>>
    /\ UNCHANGED <<show_steps, save, run, arg, result>>

\* the rows of `table`
SummaryRows(v, s, e, veh, unit, rt, s_weather, e_weather) ==
    LET distance == DistanceStr(convert_distance(rt.distance, unit)) IN
    CASE v = "app" ->
           << <<"Start", <<s>> >>, <<"End", <<e>> >>, <<"Distance", distance>>,
              <<"Estimated Time", MinutesStr(convert_time_min(rt.time))>> >>
      [] v \in {"enhanced", "map_ui"} ->
           << <<"Start Location", <<s>> >>, <<"Destination", <<e>> >>,
              <<"Total Distance", distance>>,
              <<"Estimated Time", MinutesStr(convert_time_min(rt.time))>> >>
      [] v = "weather" ->
           << <<"Start Location", <<s>> >>, <<"Destination", <<e>> >>,
              <<"Vehicle Type", << Capitalize(veh) >> >>,
              <<"Total Distance", distance>>,
              <<"Estimated Time", convert_time_hm(rt.time)>>,
              <<"Start Weather", s_weather>>, <<"End Weather", e_weather>> >>

\* the conversion of the totals, `table`, and its display
Summary ==
    /\ pc = "summary"
    /\ table' = SummaryRows(variant, start, end, vehicle, unit_choice, route,
                            start_weather, end_weather)
    /\ printed' = Append(printed, Table("fancy_grid", <<"Property", "Value">>, table'))
    /\ pc' = "ask_steps"
    /\ UNCHANGED <<variant, json_caught, start, end, vehicle_choice, vehicle, unit_choice,
                   start_coords, end_coords, start_weather, end_weather, route, steps,
                   calls, exception, files, writes>>
    /\ UNCHANGED <<show_steps, save, run, arg, result>>

\* the loop that builds `steps`, walking the instructions backwards
StepRows_Reversed(instructions, unit) ==
    [i \in 1..Len(instructions) |->
        << instructions[Len(instructions) + 1 - i].text,
           DistanceStr(convert_distance(instructions[Len(instructions) + 1 - i].distance,
                                        unit)) >>]

\* StepRows converting every instruction to kilometers, whatever the unit
StepRows_Km(instructions, unit) ==
    [i \in 1..Len(instructions) |->
        << instructions[i].text,
           DistanceStr(convert_distance(instructions[i].distance, Km)) >>]

\* the loop that builds `steps`: one row per instruction, in order
StepRows(instructions, unit) ==
    [i \in 1..Len(instructions) |->
        << instructions[i].text,
           DistanceStr(convert_distance(instructions[i].distance, unit)) >>]

\* what follows the steps prompt when the map is left out
AfterSteps_NoMap(v) == IF HasSave(v) THEN "ask_save" ELSE "done"

AfterSteps(v) == IF HasMap(v) THEN "map" ELSE IF HasSave(v) THEN "ask_save" ELSE "done"

\* the step-by-step prompt and, on "y", the directions table
AskSteps ==
    /\ pc = "ask_steps"
    /\ \E typed \in Answers :
          /\ show_steps' = Lower(typed)
          /\ IF Lower(typed) = <<"y">>
             THEN /\ steps' = StepRows(route.instructions, unit_choice)
                  /\ printed' = Append(printed, Table("grid", <<"Instruction", "Distance">>, steps'))
             ELSE UNCHANGED <<steps, printed>>
    /\ pc' = AfterSteps(variant)
    /\ UNCHANGED <<variant, json_caught, start, end, vehicle_choice, vehicle, unit_choice,
                   start_coords, end_coords, start_weather, end_weather, route, table,
                   calls, exception, files, writes>>
    /\ UNCHANGED <<save, run, arg, result>>

\* create_map(...): the map is built and saved as route_map.html
CreateMap ==
    /\ pc = "map"
    /\ files' = [files EXCEPT ![MapFile] =
                    create_map(variant, start_coords, end_coords, route.points, start, end,
                               start_weather, end_weather, vehicle)]
    /\ writes' = Append(writes, MapFile)
    /\ printed' = Append(printed, Line_(<<"Map created successfully!">>))
    /\ pc' = "ask_save"
    /\ UNCHANGED <<variant, json_caught, start, end, vehicle_choice, vehicle, unit_choice,
                   start_coords, end_coords, start_weather, end_weather, route, table,
                   steps, calls, exception>>
    /\ UNCHANGED <<show_steps, save, run, arg, result>>

\* the save prompt with the file opened in append mode
AskSave_Append ==
    /\ pc = "ask_save"
    /\ \E typed \in Answers :
          /\ save' = Lower(typed)
          /\ IF Lower(typed) = <<"y">>
             THEN /\ files' = [files EXCEPT ![SummaryFile] =
                                  Table("grid", <<"Property", "Value">>,
                                        (IF files[SummaryFile] = Absent
                                         THEN <<>> ELSE files[SummaryFile].rows) \o table)]
                  /\ writes' = Append(writes, SummaryFile)
                  /\ printed' = Append(printed,
                                       Line_(<<"Route summary saved as 'route_summary.txt'.">>))
             ELSE UNCHANGED <<files, writes, printed>>
    /\ pc' = "done"
    /\ UNCHANGED <<variant, json_caught, start, end, vehicle_choice, vehicle, unit_choice,
                   start_coords, end_coords, start_weather, end_weather, route, table,
                   steps, calls, exception>>
    /\ UNCHANGED <<show_steps, run, arg, result>>

\* the save prompt and, on "y", open("route_summary.txt", "w") and the write
AskSave ==
    /\ pc = "ask_save"
    /\ \E typed \in Answers :
          /\ save' = Lower(typed)
          /\ IF Lower(typed) = <<"y">>
             THEN /\ files' = [files EXCEPT ![SummaryFile] =
                                  Table("grid", <<"Property", "Value">>, table)]
                  /\ writes' = Append(writes, SummaryFile)
                  /\ printed' = Append(printed,
                                       Line_(<<"Route summary saved as 'route_summary.txt'.">>))
             ELSE UNCHANGED <<files, writes, printed>>
    /\ pc' = "done"
    /\ UNCHANGED <<variant, json_caught, start, end, vehicle_choice, vehicle, unit_choice,
                   start_coords, end_coords, start_weather, end_weather, route, table,
                   steps, calls, exception>>
    /\ UNCHANGED <<show_steps, run, arg, result>>

Next ==
    \/ ReadInputs
    \/ GeocodeStart
    \/ GeocodeEnd
    \/ CheckCoords
    \/ WeatherStart
    \/ WeatherEnd
    \/ Route
    \/ CheckRoute
    \/ Summary
    \/ AskSteps
    \/ CreateMap
    \/ AskSave

Spec == Init /\ [][Next]_vars

-----------------------------------------------------------------------------
(* Several runs, one after the other, in the same working directory: the
   files of a run are there when the next one starts.  The scripts run are
   the two that save a summary without asking for weather. *)

MaxRuns == 2

RunVariants == {"enhanced", "map_ui"}

InitRuns == Init /\ variant \in RunVariants

\* python <script> once more, after the previous run has ended
NewRun ==
    /\ pc \in {"done", "crashed"}
    /\ run < MaxRuns
    /\ run' = run + 1
    /\ variant' \in RunVariants
    /\ pc' = "input"
    /\ start' = UnsetWord /\ end' = UnsetWord
    /\ vehicle_choice' = UnsetStr /\ vehicle' = UnsetWord /\ unit_choice' = UnsetStr
    /\ start_coords' = Unset /\ end_coords' = Unset
    /\ start_weather' = UnsetStr /\ end_weather' = UnsetStr
    /\ route' = Unset
    /\ table' = <<>> /\ steps' = <<>>
    /\ calls' = <<>> /\ printed' = <<>>
    /\ exception' = NoException
    /\ writes' = <<>>
    /\ show_steps' = UnsetStr /\ save' = UnsetStr
    /\ UNCHANGED <<json_caught, files, arg, result>>

NextRuns ==
    \/ ReadInputs
    \/ GeocodeStart
    \/ GeocodeEnd
    \/ CheckCoords
    \/ Route
    \/ CheckRoute
    \/ Summary
    \/ AskSteps
    \/ CreateMap
    \/ AskSave
    \/ NewRun

SpecRuns == InitRuns /\ [][NextRuns]_vars

-----------------------------------------------------------------------------
(* The converters called directly, as the tests of the weather script call
   them: one call per behaviour, its arguments chosen at the start. *)

MaxHours == 2

\* durations in milliseconds around the minute and hour boundaries
TimeInputs ==
    { h * 60 * MsPerMinute + m * MsPerMinute + r :
        h \in 0..MaxHours, m \in {0, 1, 10, 59}, r \in {0, 1, MsPerMinute - 1} }

\* distances in meters
DistanceInputs == {0, 1, 999, 1000, 1609, 10000, 201168}

\* units as a caller may pass them: convert_distance does not normalise
UnitArgs == {Km, Mi, <<"M", "I">>, <<"m", "i", "l", "e", "s">>, <<>>}

\* the two scripts whose get_route takes no vehicle and reads no points
PlainRouteScripts == {"app", "enhanced"}

DirectCalls ==
    [fn : {"convert_time"}, ms : TimeInputs]
        \cup [fn : {"convert_distance"}, distance_m : DistanceInputs, unit : UnitArgs]
        \cup [fn : {"get_route"}, script : PlainRouteScripts,
              response : {RouteResponses[i] : i \in DOMAIN RouteResponses}]

InitDirect ==
    /\ variant = "weather"
    /\ json_caught \in BOOLEAN
    /\ pc = "call"
    /\ arg \in DirectCalls
    /\ result = Unset
    /\ start = UnsetWord /\ end = UnsetWord
    /\ vehicle_choice = UnsetStr /\ vehicle = UnsetWord /\ unit_choice = UnsetStr
    /\ start_coords = Unset /\ end_coords = Unset
    /\ start_weather = UnsetStr /\ end_weather = UnsetStr
    /\ route = Unset
    /\ table = <<>> /\ steps = <<>>
    /\ calls = <<>> /\ printed = <<>>
    /\ exception = NoException
    /\ files = [f \in {SummaryFile, MapFile} |-> Absent]
    /\ writes = <<>>
    /\ show_steps = UnsetStr /\ save = UnsetStr
    /\ run = 1

\* everything but the call and its result
main_state ==
    <<variant, json_caught, start, end, vehicle_choice, vehicle, unit_choice,
      start_coords, end_coords, start_weather, end_weather, route, table, steps,
      calls, printed, exception, files, writes, show_steps, save, run>>

\* time_str = convert_time(ms)
test_convert_time ==
    /\ pc = "call"
    /\ arg.fn = "convert_time"
    /\ result' = [ret |-> convert_time_hm(arg.ms)]
    /\ pc' = "returned"
    /\ UNCHANGED <<arg, main_state>>

\* distance, unit_label = convert_distance(distance_m, unit)
test_convert_distance ==
    /\ pc = "call"
    /\ arg.fn = "convert_distance"
    /\ result' = [ret |-> convert_distance(arg.distance_m, arg.unit)]
    /\ pc' = "returned"
    /\ UNCHANGED <<arg, main_state>>

\* route = get_route(start_coords, end_coords) of one of the two scripts,
\* the routing endpoint answering with arg.response
call_get_route ==
    /\ pc = "call"
    /\ arg.fn = "get_route"
    /\ result' = [ret |-> get_route(arg.script, arg.response)]
    /\ pc' = "returned"
    /\ UNCHANGED <<arg, main_state>>

NextDirect ==
    \/ test_convert_time
    \/ test_convert_distance
    \/ call_get_route

SpecDirect == InitDirect /\ [][NextDirect]_vars

-----------------------------------------------------------------------------
(* Properties *)

CallIds == DOMAIN calls
Terminated == pc \in {"done", "crashed"}

\* a geocoding call that produced no coordinate: it returned None or raised
GeocodeFailedAt(i) ==
    /\ calls[i].api = "geocode"
    /\ calls[i].raised # NoException \/ calls[i].returned = None

\* a routing call that produced no route: it returned None or raised
RouteFailedAt(i) ==
    /\ calls[i].api = "route"
    /\ calls[i].raised # NoException \/ calls[i].returned = None

\* C1: in a run where geocode_location produced no coordinate for the start
\* or for the end location, no routing request and no weather request is
\* issued.
C1_NoDownstreamCall ==
    (\E i \in CallIds : GeocodeFailedAt(i))
        => \A j \in CallIds : calls[j].api \notin {"route", "weather"}

\* C1 witness: a run that geocoded both locations, failed on the end location
\* only, and returned from main.
C1_Witness ==
    /\ pc = "done"
    /\ Len(calls) = 2
    /\ ~GeocodeFailedAt(1)
    /\ GeocodeFailedAt(2)

\* C2 as stated: once a geocoding or routing call has failed, the run issues
\* no further external call.
C2_FailureIsTerminal ==
    [][(\E i \in CallIds : GeocodeFailedAt(i) \/ RouteFailedAt(i)) => calls' = calls]_vars

\* C2 amended: after a failed geocoding or routing call the only external
\* call the run can still issue is the geocoding of the end location, right
\* after the start location failed to geocode; no weather or routing call
\* follows, and nothing follows a failed routing call.
C2_OnlyEndGeocodeFollows ==
    [][(\E i \in CallIds : GeocodeFailedAt(i) \/ RouteFailedAt(i))
          => \/ calls' = calls
             \/ /\ Len(calls) = 1
                /\ calls[1].returned = None /\ calls[1].raised = NoException
                /\ Len(calls') = 2
                /\ calls'[1] = calls[1]
                /\ calls'[2].api = "geocode"
                /\ calls'[2].params.q = end]_vars

\* C2 witness: the start location failed to geocode and the end location was
\* geocoded all the same.
C2_Witness ==
    /\ Len(calls) = 2
    /\ GeocodeFailedAt(1)
    /\ calls[2].api = "geocode"
    /\ calls[2].params.q = end
    /\ pc = "check_coords"

\* what the weather lookup of C3 calls a failure: the request fails, the
\* status is not 2xx, the body does not parse, or the weather, main or wind
\* field is missing or the weather list is empty
WeatherLookupFails(resp) ==
    \/ resp.kind # "json"
    \/ /\ resp.kind = "json"
       /\ \/ "weather" \notin DOMAIN resp.data
          \/ "main" \notin DOMAIN resp.data
          \/ "wind" \notin DOMAIN resp.data
          \/ Len(resp.data.weather) = 0

\* C3 as stated: whatever way the weather lookup fails, get_weather raises
\* nothing and returns "Weather data unavailable".
C3_WeatherNeverRaises ==
    \A i \in CallIds :
        (calls[i].api = "weather" /\ WeatherLookupFails(calls[i].response))
            => /\ calls[i].raised = NoException
               /\ calls[i].returned = WeatherUnavailable

NetworkFailure(i) ==
    /\ i \in CallIds
    /\ calls[i].api = "weather"
    /\ calls[i].response.kind = "ConnectionError"

WeatherRaised == \E i \in CallIds : calls[i].api = "weather" /\ calls[i].raised # NoException

RouteSucceeded ==
    \E i \in CallIds :
        calls[i].api = "route" /\ calls[i].raised = NoException /\ calls[i].returned # None

\* In the weather variant the weather calls are the third (start) and fourth
\* (end) calls of a run, after the two geocoding calls, and the weather rows
\* are the sixth (Start Weather) and seventh (End Weather) rows of the table.

\* C4: in the weather variant a network failure of the start or end weather
\* lookup is answered with "Weather data unavailable" and does not end the
\* run: unless the other lookup raised, the routing call is made, and when it
\* succeeds the summary table is printed with the placeholder in the row of
\* the lookup that failed.
C4_WeatherFailureAbsorbed ==
    /\ \A i \in CallIds :
          NetworkFailure(i) => /\ calls[i].raised = NoException
                               /\ calls[i].returned = WeatherUnavailable
    /\ (Terminated /\ ~WeatherRaised
          /\ (NetworkFailure(3) \/ NetworkFailure(4)))
          => /\ \E j \in CallIds : calls[j].api = "route"
             /\ RouteSucceeded =>
                  /\ Len(table) = 7
                  /\ \E k \in DOMAIN printed :
                        printed[k] = Table("fancy_grid", <<"Property", "Value">>, table)
                  /\ NetworkFailure(3) =>
                        table[6] = <<"Start Weather", WeatherUnavailable>>
                  /\ NetworkFailure(4) =>
                        table[7] = <<"End Weather", WeatherUnavailable>>

\* C4 witness: a finished run whose end weather lookup met a network failure
\* while the start lookup succeeded, and whose table shows both.
C4_Witness ==
    /\ pc = "done"
    /\ variant = "weather"
    /\ NetworkFailure(4)
    /\ ~NetworkFailure(3)
    /\ Len(table) = 7
    /\ table[7][2] = WeatherUnavailable
    /\ table[6][2] # WeatherUnavailable

\* the four routing failures C5 names: network failure, non-2xx status, no
\* `paths` field, empty `paths`
RouteLookupFails(resp) ==
    \/ resp.kind \in {"ConnectionError", "HTTPError"}
    \/ resp.kind = "json" /\ "paths" \notin DOMAIN resp.data
    \/ resp.kind = "json" /\ "paths" \in DOMAIN resp.data /\ Len(resp.data.paths) = 0

\* C5 as stated: for each of these failures get_route raises nothing and
\* returns None, and the run ends without an uncaught exception.
C5_RouteFailureUniform ==
    \A i \in CallIds :
        (calls[i].api = "route" /\ RouteLookupFails(calls[i].response))
            => /\ calls[i].raised = NoException
               /\ calls[i].returned = None
               /\ pc # "crashed"

\* the geocoding failures C6 names: the request fails, the body does not
\* parse, or the first hit lacks `point`, or its point lacks `lat` or `lng`
GeocodeLookupFails(resp) ==
    \/ resp.kind # "json"
    \/ /\ resp.kind = "json"
       /\ "hits" \in DOMAIN resp.data
       /\ Len(resp.data.hits) > 0
       /\ \/ "point" \notin DOMAIN resp.data.hits[1]
          \/ "lat" \notin DOMAIN resp.data.hits[1].point
          \/ "lng" \notin DOMAIN resp.data.hits[1].point

\* C6 as stated: for each of these failures geocode_location raises nothing
\* and returns its error outcome, None.
C6_GeocodeErrorNotRaised ==
    \A i \in CallIds :
        (calls[i].api = "geocode" /\ GeocodeLookupFails(calls[i].response))
            => /\ calls[i].raised = NoException
               /\ calls[i].returned = None

\* a geocoding call answered with zero hits, and one that met a request error
\* the client caught
NotFoundAt(i) ==
    /\ calls[i].api = "geocode"
    /\ calls[i].raised = NoException
    /\ calls[i].response.kind = "json"
    /\ Len(Get(calls[i].response.data, "hits", <<>>)) = 0

ClientErrorAt(i) ==
    /\ calls[i].api = "geocode"
    /\ calls[i].raised = NoException
    /\ calls[i].response.kind # "json"

\* C7 as stated: the value geocode_location returns for zero hits is never
\* the value it returns for a network or client error.
C7_FailuresDistinguishable ==
    \A i, j \in CallIds :
        (NotFoundAt(i) /\ ClientErrorAt(j)) => calls[i].returned # calls[j].returned

\* C7 amended: geocode_location returns None for zero hits and None for a
\* network or client error alike; the two differ only in the line printed
\* ("Could not find location" against "Error in geocoding"), and a success
\* returns a (lat, lng) pair, never None.
C7_FailuresShareNone ==
    \A i \in CallIds :
        calls[i].api = "geocode" =>
            /\ NotFoundAt(i) =>
                  /\ calls[i].returned = None
                  /\ calls[i].out = << <<"Could not find location", calls[i].params.q>> >>
            /\ ClientErrorAt(i) =>
                  /\ calls[i].returned = None
                  /\ Len(calls[i].out) = 1
                  /\ calls[i].out[1][1] = "Error in geocoding"
            /\ (calls[i].raised = NoException /\ ~NotFoundAt(i) /\ ~ClientErrorAt(i)) =>
                  /\ calls[i].returned # None
                  /\ DOMAIN calls[i].returned = {"lat", "lng"}
                  /\ calls[i].out = <<>>

\* C7 witness: a run whose start location had zero hits and whose end
\* location met a request error, both stored as None.
C7_Witness ==
    /\ Len(calls) = 2
    /\ NotFoundAt(1)
    /\ ClientErrorAt(2)
    /\ pc = "check_coords"
    /\ start_coords = None
    /\ end_coords = None

\* C8: a run in which a geocoding call or the routing call failed writes no
\* file: neither route_summary.txt nor route_map.html.
C8_NoArtifactOnFailure ==
    (\E i \in CallIds :
        \/ GeocodeFailedAt(i)
        \/ RouteFailedAt(i)
        \/ calls[i].api = "route" /\ RouteLookupFails(calls[i].response))
        => /\ writes = <<>>
           /\ \A f \in DOMAIN files : files[f] = Absent

\* C8 witness: a run of a script that draws a map and offers to save, ended by
\* a routing call that returned None.
C8_Witness ==
    /\ pc = "done"
    /\ HasMap(variant)
    /\ \E i \in CallIds : RouteFailedAt(i) /\ calls[i].raised = NoException
    /\ writes = <<>>

OfferedModes == { <<"1">>, <<"2">>, <<"3">> }

\* C9 as stated: when the mode typed is none of the offered options, no
\* routing call is made.
C9_UnsupportedModeFailsFast ==
    (variant = "weather" /\ pc # "input" /\ vehicle_choice \notin OfferedModes)
        => \A i \in CallIds : calls[i].api # "route"

\* C9 amended: an unsupported mode choice is not rejected; it is silently
\* replaced by car and the routing call is made with vehicle car, while the
\* offered choices 1, 2, 3 are routed as car, motorcycle, foot.
C9_UnsupportedModeRoutedAsCar ==
    \A i \in CallIds :
        (variant = "weather" /\ calls[i].api = "route") =>
            /\ vehicle_choice = <<"1">> => calls[i].params.vehicle = "car"
            /\ vehicle_choice = <<"2">> => calls[i].params.vehicle = "motorcycle"
            /\ vehicle_choice = <<"3">> => calls[i].params.vehicle = "foot"
            /\ vehicle_choice \notin OfferedModes => calls[i].params.vehicle = "car"

\* C9 witness: the user typed 4 and the run was routed, as a car.
C9_Witness ==
    /\ variant = "weather"
    /\ vehicle_choice = <<"4">>
    /\ \E i \in CallIds : calls[i].api = "route" /\ calls[i].params.vehicle = "car"
    /\ pc = "done"

\* the text a distance of m meters must show under unit u
ShownDistance(m, u) ==
    IF u = Mi
    THEN Fixed2([num |-> m * 100, den |-> 160934]) \o <<" ", "miles">>
    ELSE Fixed2([num |-> m, den |-> 1000]) \o <<" ", "km">>

IsDistanceRow(row) == row[1] \in {"Distance", "Total Distance"}

\* C10: once read, the unit is km or mi (km whenever the input was reported
\* invalid) and never changes during the run; the summary's total distance
\* and every instruction's distance are converted with that unit and carry
\* its label.
C10_OneUnitPerRun ==
    /\ [](pc # "input" =>
            /\ unit_choice \in {Km, Mi}
            /\ (\E k \in DOMAIN printed : printed[k] = InvalidUnitLine) => unit_choice = Km
            /\ Len(table) > 0 =>
                  /\ \E k \in DOMAIN table : IsDistanceRow(table[k])
                  /\ \A k \in DOMAIN table :
                        IsDistanceRow(table[k]) =>
                            table[k][2] = ShownDistance(route.distance, unit_choice)
            /\ Len(steps) > 0 =>
                  \A k \in DOMAIN steps :
                      steps[k][2] = ShownDistance(route.instructions[k].distance, unit_choice))
    /\ [][pc # "input" => unit_choice' = unit_choice]_vars

\* C10 witness: a run in miles that showed its summary and two steps.
C10_Witness ==
    /\ pc = "done"
    /\ unit_choice = Mi
    /\ Len(table) > 0
    /\ Len(steps) = 2
    /\ steps[1][2] # steps[2][2]

\* the step-by-step table, as printed
IsStepsTable(shown) ==
    /\ shown.kind = "table"
    /\ shown.headers = <<"Instruction", "Distance">>

\* the instructions of the first path of the routing response of call c
InstructionsAt(c) == Get(calls[c].response.data.paths[1], "instructions", <<>>)

\* C11: when the user asks for the step-by-step instructions, the table shown
\* has exactly one row per instruction of the first path of the routing
\* response, in the order of the response: row i is made of instruction i's
\* text and its converted distance; none is dropped, duplicated or reordered.
C11_OneRowPerInstruction ==
    \A k \in DOMAIN printed :
        IsStepsTable(printed[k]) =>
            /\ show_steps = <<"y">>
            /\ \E c \in CallIds :
                  /\ calls[c].api = "route"
                  /\ calls[c].raised = NoException
                  /\ calls[c].returned # None
                  /\ Len(printed[k].rows) = Len(InstructionsAt(c))
                  /\ \A i \in 1..Len(InstructionsAt(c)) :
                        printed[k].rows[i] =
                            << InstructionsAt(c)[i].text,
                               ShownDistance(InstructionsAt(c)[i].distance, unit_choice) >>

\* C11 witness: a run that showed the steps of a route of two different
\* instructions.
C11_Witness ==
    /\ pc = "done"
    /\ show_steps = <<"y">>
    /\ \E k \in DOMAIN printed :
          /\ IsStepsTable(printed[k])
          /\ Len(printed[k].rows) = 2
          /\ printed[k].rows[1][1] # printed[k].rows[2][1]

\* what the spec's extended convert_time renders for h hours and m minutes
HoursAndMinutes(h, m) ==
    IF h > 0
    THEN NatStr(h) \o <<"h ">> \o NatStr(m) \o <<"m">>
    ELSE NatStr(m) \o <<" minutes">>

\* C12: for every duration t >= 0 in milliseconds the extended convert_time
\* renders hours = floor(floor(t / 60000) / 60) and minutes =
\* floor(t / 60000) mod 60, so that minutes is in 0..59 and hours * 60 +
\* minutes = floor(t / 60000): "<hours>h <minutes>m" when hours > 0 and
\* "<minutes> minutes" otherwise; 600000 gives "10 minutes" and 7200000 gives
\* "2h 0m".
C12_HoursAndMinutes ==
    (pc = "returned" /\ arg.fn = "convert_time") =>
        LET whole == arg.ms \div 60000
            hours == whole \div 60
            minutes == whole % 60
        IN  /\ minutes \in 0..59
            /\ hours * 60 + minutes = whole
            /\ result.ret = HoursAndMinutes(hours, minutes)
            /\ arg.ms = 600000 => result.ret = <<"1", "0", " minutes">>
            /\ arg.ms = 7200000 => result.ret = <<"2", "h ", "0", "m">>

\* C12 witness: a duration of two hours, 59 minutes and 59.999 seconds was
\* converted, and shows 59 minutes.
C12_Witness ==
    /\ pc = "returned"
    /\ arg.fn = "convert_time"
    /\ arg.ms = 2 * 3600000 + 59 * 60000 + 59999
    /\ result.ret = <<"2", "h ", "5", "9", "m">>

\* the greatest common divisor of two naturals, b > 0 or a > 0
RECURSIVE GCD(_, _)
GCD(a, b) == IF b = 0 THEN a ELSE GCD(b, a % b)

\* two quotients of naturals with positive denominators are the same number
\* when they agree in lowest terms
SameNumber(p, q) ==
    /\ p.num \div GCD(p.num, p.den) = q.num \div GCD(q.num, q.den)
    /\ p.den \div GCD(p.num, p.den) = q.den \div GCD(q.num, q.den)

DigitValue(ch) == CHOOSE d \in 0..9 : DigitChar(d) = ch

\* the natural number a sequence of digits denotes
RECURSIVE DigitsValue(_)
DigitsValue(s) ==
    IF s = <<>> THEN 0
    ELSE DigitsValue(SubSeq(s, 1, Len(s) - 1)) * 10 + DigitValue(s[Len(s)])

\* where ch first occurs in s
IndexOf(s, ch) == CHOOSE i \in 1..Len(s) : s[i] = ch /\ \A j \in 1..(i - 1) : s[j] # ch

\* the number, in units of 1e-4, that the decimal "[-]digits.digits" denotes
ParseFloat(s) ==
    LET body == IF s[1] = "-" THEN Tail(s) ELSE s
        dot == IndexOf(body, ".")
        frac == SubSeq(body, dot + 1, Len(body))
        padded == frac \o [i \in 1..(4 - Len(frac)) |-> "0"]
        magnitude == DigitsValue(SubSeq(body, 1, dot - 1)) * 10000 + DigitsValue(padded)
    IN  IF s[1] = "-" THEN -magnitude ELSE magnitude

\* the coordinate pair a "<lat>,<lon>" string denotes
ParsePoint(s) ==
    [lat |-> ParseFloat(SubSeq(s, 1, IndexOf(s, ",") - 1)),
     lng |-> ParseFloat(SubSeq(s, IndexOf(s, ",") + 1, Len(s)))]

Requests(api) == Cardinality({c \in CallIds : calls[c].api = api})

\* C15: the run is sequential and retries nothing: a step issues at most one
\* external call, and that call has completed (returned or raised) before
\* the next step; a run makes at most 2 geocoding requests (one for the start
\* and one for the end location), at most 2 weather requests and at most 1
\* routing request, whether they succeed or fail.
C15_SequentialNoRetry ==
    /\ [][/\ Len(calls') \in {Len(calls), Len(calls) + 1}
          /\ SubSeq(calls', 1, Len(calls)) = calls]_vars
    /\ [](/\ Requests("geocode") <= 2
          /\ Requests("weather") <= 2
          /\ Requests("route") <= 1
          /\ \A c, d \in CallIds :
                (c < d /\ calls[c].api = "geocode" /\ calls[d].api = "geocode")
                    => calls[c].params.q = start /\ calls[d].params.q = end
          /\ \A c, d \in CallIds :
                (c < d /\ calls[c].api = "weather" /\ calls[d].api = "weather")
                    => /\ calls[c].params = WeatherParams(start_coords)
                       /\ calls[d].params = WeatherParams(end_coords))

\* C15 witness: a finished run of the weather script that made all five
\* requests, its second weather request failing and its routing request
\* returning no route.
C15_Witness ==
    /\ pc = "done"
    /\ variant = "weather"
    /\ Len(calls) = 5
    /\ Requests("geocode") = 2 /\ Requests("weather") = 2 /\ Requests("route") = 1
    /\ calls[4].response.kind = "HTTPError"
    /\ calls[5].returned = None

\* the step that wrote route_summary.txt
SummarySaved ==
    /\ Len(writes') = Len(writes) + 1
    /\ writes'[Len(writes')] = SummaryFile

\* C16: route_summary.txt is written only when the route was retrieved and
\* the user answers y to the save prompt; a write replaces the whole file by
\* the summary table of the run, and no other step (the start of a later run
\* included) touches the file.  So after any sequence of runs the file holds
\* only the summary table of the last run that saved, with the rows of the
\* summary displayed in that run in the same order, and never the
\* step-by-step table or content of an earlier run.
C16_SummaryFileIsLastSaved ==
    /\ [][/\ SummarySaved =>
                /\ pc = "ask_save"
                /\ save' = <<"y">>
                /\ RouteSucceeded
                /\ route # None
                /\ files'[SummaryFile] = Table("grid", <<"Property", "Value">>, table)
          /\ ~SummarySaved => files'[SummaryFile] = files[SummaryFile]]_vars
    /\ [](/\ files[SummaryFile] # Absent =>
                /\ files[SummaryFile].kind = "table"
                /\ files[SummaryFile].headers = <<"Property", "Value">>
                /\ ~IsStepsTable(files[SummaryFile])
                /\ \A k \in DOMAIN files[SummaryFile].rows, i \in DOMAIN steps :
                      files[SummaryFile].rows[k] # steps[i]
          /\ (\E w \in DOMAIN writes : writes[w] = SummaryFile) =>
                /\ files[SummaryFile].rows = table
                /\ \E k \in DOMAIN printed :
                      printed[k] = Table("fancy_grid", <<"Property", "Value">>, table))

\* C16 witness: a second run showed a summary and its steps and declined to
\* save; the file still holds the different summary an earlier run saved.
C16_Witness ==
    /\ run = 2
    /\ pc = "done"
    /\ save = <<"n">>
    /\ show_steps = <<"y">>
    /\ Len(table) > 0
    /\ files[SummaryFile] # Absent
    /\ files[SummaryFile].rows # table

\* C17: the miles value convert_distance returns for 10000 meters is exactly
\* 6.2137, the number the test compares it with by equality.
C17_TenKilometersInMiles ==
    (pc = "returned" /\ arg = [fn |-> "convert_distance", distance_m |-> 10000, unit |-> Mi])
        => SameNumber(result.ret.value, [num |-> 62137, den |-> 10000])

\* C18: the polyline create_map hands the map renderer has as many points
\* as the route, in the route's order, each (longitude, latitude) pair
\* swapped to (latitude, longitude); the start and end markers are at the
\* geocoded (latitude, longitude) pairs, unswapped; swapping twice gives the
\* original sequence back.
C18_PolylineSwapped ==
    files[MapFile] # Absent =>
        /\ Len(files[MapFile].polyline) = Len(route.points)
        /\ \A i \in DOMAIN route.points :
              /\ files[MapFile].polyline[i][1] = route.points[i][2]
              /\ files[MapFile].polyline[i][2] = route.points[i][1]
        /\ Len(files[MapFile].markers) = 2
        /\ files[MapFile].markers[1].at = <<start_coords.lat, start_coords.lng>>
        /\ files[MapFile].markers[2].at = <<end_coords.lat, end_coords.lng>>
        /\ SwapPoints(files[MapFile].polyline) = route.points
        /\ SwapPoints(SwapPoints(route.points)) = route.points
        /\ \E c \in CallIds :
              /\ calls[c].api = "route"
              /\ route.points = calls[c].response.data.paths[1].points.coordinates

\* C18 witness: a map was written for a route of three different points
\* between two different places.
C18_Witness ==
    /\ files[MapFile] # Absent
    /\ Len(files[MapFile].polyline) = 3
    /\ \A i, j \in 1..3 : i # j => route.points[i] # route.points[j]
    /\ \A i \in 1..3 : route.points[i][1] # route.points[i][2]
    /\ start_coords # end_coords

\* the endpoints a run of the weather script calls, in order
WeatherRunOrder == <<"geocode", "geocode", "weather", "weather", "route">>

\* C19: in the weather script the external calls of a run are made in the
\* order geocode(start), geocode(end), weather(start), weather(end), route;
\* the routing call is issued only after both weather lookups have
\* completed, so a run whose routing call fails has made two weather
\* requests, and it ends without displaying a summary or a weather result.
C19_WeatherBeforeRoute ==
    variant = "weather" =>
        /\ Len(calls) <= 5
        /\ \A c \in CallIds : calls[c].api = WeatherRunOrder[c]
        /\ Len(calls) >= 1 => calls[1].params.q = start
        /\ Len(calls) >= 2 => calls[2].params.q = end
        /\ Len(calls) >= 3 => calls[3].params = WeatherParams(start_coords)
        /\ Len(calls) >= 4 => calls[4].params = WeatherParams(end_coords)
        /\ Len(calls) = 5 =>
              /\ calls[3].raised = NoException /\ calls[3].returned = start_weather
              /\ calls[4].raised = NoException /\ calls[4].returned = end_weather
        /\ (Terminated /\ \E c \in CallIds : RouteFailedAt(c)) =>
              /\ Requests("weather") = 2
              /\ table = <<>>
              /\ \A k \in DOMAIN printed : printed[k].kind # "table"
              /\ files[MapFile] = Absent

\* C19 witness: a run of the weather script got both weather results, then
\* no route, and returned.
C19_Witness ==
    /\ variant = "weather"
    /\ pc = "done"
    /\ Len(calls) = 5
    /\ calls[3].returned # WeatherUnavailable
    /\ calls[4].returned # WeatherUnavailable
    /\ RouteFailedAt(5)
    /\ route = None

\* how many times this run wrote a file
TimesWritten(file) == Cardinality({w \in DOMAIN writes : writes[w] = file})

OtherScript(script) == IF script = "app" THEN "enhanced" ELSE "app"

\* C21: for every routing response (success, network or HTTP failure, no
\* `paths` field, empty `paths`, a path without `distance` or `time`),
\* get_route of graphhopper_app.py and get_route of graphhopper_enhanced.py
\* end in the same outcome: the same returned route, or both return no
\* route, or both raise.
C21_SameRoutingOutcome ==
    (pc = "returned" /\ arg.fn = "get_route") =>
        /\ result.ret.exc = get_route(OtherScript(arg.script), arg.response).exc
        /\ result.ret.ret = get_route(OtherScript(arg.script), arg.response).ret

====
